---- MODULE Spec2Model ----
(***************************************************************************)
(* A model of the SAL orchestrator of src/salvatore.py: the shared state   *)
(* (logs, anchors, agents, cache, dag), the nine step handlers, the digest *)
(* verifier, the prompt mutation and the run() driver.                     *)
(*                                                                         *)
(* Python values are modelled as tagged records [t |-> kind, v |-> value]. *)
(* A dict is an ordered sequence of <<key, value>> pairs (Python dicts     *)
(* keep insertion order, and json.dumps writes them in that order).  A     *)
(* dict that several holders share (a log record that is also a cache      *)
(* entry, a step's argument, a step's result) lives in `heap` and is held  *)
(* as a reference R(i), so that a mutation in place is seen by every       *)
(* holder, as in Python.  Floats in [0, 1] are modelled in hundredths.     *)
(***************************************************************************)
EXTENDS Integers, Sequences, FiniteSets, TLC

VARIABLES
    heap,      \* the dict objects that are shared by reference: Seq of pair sequences
    logs,      \* self.state["logs"]: Seq of references
    anchors,   \* self.state["anchors"]: pairs
    agents,    \* self.state["agents"]: pairs
    cache,     \* self.state["cache"]: pairs <<token, reference>>
    dag,       \* self.state["dag"]: [nodes |-> Seq, edges |-> Seq of <<u, v>>]
    file,      \* the content of salvatore_export.json (None: never written)
    phase,     \* "new": the fields are set, step0_prep is still to run; then "idle"
    last       \* the most recent call: [op, arg, before, ret, exc, executed]

vars == <<heap, logs, anchors, agents, cache, dag, file, phase, last>>

----------------------------------------------------------------------------
(* Bounds of the model. *)

MaxRecords == 2       \* dict objects allocated on the heap
MaxMutations == 2     \* mutations of query fields, over all records

(* The inputs the environment supplies. *)
Queries == {"Analyze X post"}         \* the query of main()
Choices == {"default"}                \* the default of run()
Entropies == {20, 50}                 \* random.random(), in hundredths: below 0.5, and 0.5
MutationChars == {"*"}                \* of ascii_letters + digits + the symbols, the one drawn

----------------------------------------------------------------------------
(* Python values. *)

S(s) == [t |-> "str", v |-> s]
N(n) == [t |-> "num", v |-> n]
D(pairs) == [t |-> "dict", v |-> pairs]
L(items) == [t |-> "list", v |-> items]
R(i) == [t |-> "ref", v |-> i]
G(g) == [t |-> "DiGraph", v |-> g]
F(prefix, x) == [t |-> "fstr", v |-> <<prefix, x>>]
Coroutine(name, arg) == [t |-> "coroutine", v |-> <<name, arg>>]
Bool(b) == [t |-> "bool", v |-> b]
None == [t |-> "None", v |-> 0]

NoExc == "none"
TypeError == "TypeError"

(* dict operations: d.get(k, default), k in d, d[k] = v *)
RECURSIVE IndexOf(_, _, _)
IndexOf(pairs, k, i) ==
    IF i > Len(pairs) THEN 0
    ELSE IF pairs[i][1] = k THEN i
    ELSE IndexOf(pairs, k, i + 1)

HasKey(pairs, k) == IndexOf(pairs, k, 1) # 0

DictGet(pairs, k, default) ==
    LET i == IndexOf(pairs, k, 1) IN IF i = 0 THEN default ELSE pairs[i][2]

DictSet(pairs, k, x) ==
    LET i == IndexOf(pairs, k, 1)
    IN IF i = 0 THEN Append(pairs, <<k, x>>) ELSE [pairs EXCEPT ![i] = <<k, x>>]

Keys(pairs) == [i \in 1..Len(pairs) |-> pairs[i][1]]

(* seq[-1] *)
Last(seq) == seq[Len(seq)]

----------------------------------------------------------------------------
(* Program constants: SAL.__init__ *)

AgentNames == <<"Coordinator", "Digger", "Proofmaster", "Adapter", "Graphmaster">>
Plugins == <<"pubmed_api", "x_fetch">>
HandoffEdges == << <<"Coordinator", "Digger">>, <<"Digger", "Proofmaster">>,
                   <<"Proofmaster", "Adapter">>, <<"Adapter", "Graphmaster">> >>
InitialAnchors == << <<"ALLNIGHT", S("rollback")>>, <<"BEDROCK", S("persistence")>>,
                     <<"RIVER", S("evidence")>> >>

step_hashes ==
    << <<"PREP", "1a2b3c4d5e6f7890abcdef1234567890">>,
       <<"AWAKEN", "7c4a8d09ca3762af61e59520943dc26494f8941b">>,
       <<"QUESTION", "8f14e45fceea167a5a36dedd4bea2543">>,
       <<"EVIDENCE", "c9f0f895fb98ab9159f51fd0297e236d">>,
       <<"NARRATIVE", "a5d5c6e8d2f0a7b3c1e9d4f8e2a0b7c3">>,
       <<"CHOOSE", "45c48cce2e2d7fbdea1afc51c7c6ad26">>,
       <<"FREEDOM", "d3d9446802a44259755d38e6d163e820">>,
       <<"TRUTH", "b8e2f4a0c6e9d7b2a1f8c4e3d9b0a7c2">>,
       <<"ALLNIGHT", "9f86d081884c7d659a2feaa0c55ad015">> >>

DigestLen == 64            \* characters of hashlib.sha256(...).hexdigest()
ProofLen == 16             \* hexdigest()[:16]
MutationLen == 5           \* range(5) in evolve_prompt
EntropyThreshold == 50     \* 0.5
SemanticThreshold == 95    \* 0.95
EntropyDefault == 100      \* data.get("entropy", 1.0)
SemanticDefault == 0       \* data.get("semantic_score", 0.0)

----------------------------------------------------------------------------
(* json.dumps and hashlib.sha256 *)

(* What json.dumps writes for x: references are followed, so the text is  *)
(* the content at the time of the call.                                   *)
RECURSIVE Resolve(_, _)
Resolve(x, h) ==
    CASE x.t = "dict" ->
            D([i \in 1..Len(x.v) |-> <<x.v[i][1], Resolve(x.v[i][2], h)>>])
      [] x.t = "list" -> L([i \in 1..Len(x.v) |-> Resolve(x.v[i], h)])
      [] x.t = "ref" -> Resolve(D(h[x.v]), h)
      [] OTHER -> x

(* The default encoder knows dict, list, str, numbers and None; for any   *)
(* other object (a networkx DiGraph, a coroutine) it raises TypeError.    *)
RECURSIVE JsonSerializable(_, _)
JsonSerializable(x, h) ==
    CASE x.t = "dict" -> \A i \in 1..Len(x.v) : JsonSerializable(x.v[i][2], h)
      [] x.t = "list" -> \A i \in 1..Len(x.v) : JsonSerializable(x.v[i], h)
      [] x.t = "ref" -> JsonSerializable(D(h[x.v]), h)
      [] x.t \in {"str", "num", "bool", "fstr", "None"} -> TRUE
      [] OTHER -> FALSE

json_dumps(x, h) ==
    IF JsonSerializable(x, h)
    THEN [t |-> "json", v |-> Resolve(x, h)]
    ELSE [t |-> TypeError, v |-> x.t]

Raised(text) == text.t = TypeError

(* A hex string is <<length, content>>.  The digest of a text is 64      *)
(* characters that stand for that text (two digests are equal exactly     *)
(* when the texts are); a literal stands for itself.                      *)
Hex(n, content) == [t |-> "hex", v |-> <<n, content>>]
HexLiteral(s) == Hex(Len(s), S(s))
sha256_hexdigest(text) == Hex(DigestLen, text)
Prefix(hex, n) == Hex(IF n < hex.v[1] THEN n ELSE hex.v[1], hex.v[2])

(* SAL.verify_hash *)
verify_hash(step, data) ==
    LET expected == HexLiteral(DictGet(step_hashes, step, ""))
        computed == sha256_hexdigest(data)
    IN IF computed # expected THEN FALSE ELSE TRUE

(* SAL.evolve_prompt: five random characters appended *)
RECURSIVE Join(_, _)
Join(picks, n) == IF n = 0 THEN "" ELSE Join(picks, n - 1) \o picks[n]

evolve_prompt(prompt, picks) ==
    LET mutation == Join(picks, MutationLen) IN prompt \o mutation

(* The outcomes of the five draws: one pick for each position. *)
Picks == [1..MutationLen -> MutationChars]

(* SAL.refine_query *)
refine_query(query) ==
    << <<"why", S("motives")>>, <<"what", S(query)>>, <<"how", S("mechanisms")>> >>

(* SAL.fetch_data: the mock never raises, so its except branch is never taken *)
fetch_data(source, entropy) ==
    << <<"source", S(source)>>, <<"data", S("Mock data from " \o source)>>,
       <<"entropy", N(entropy)>> >>

----------------------------------------------------------------------------
(* networkx.DiGraph: nodes and edges in insertion order, each held once *)

EmptyGraph == [nodes |-> <<>>, edges |-> <<>>]

HasNode(g, n) == \E i \in 1..Len(g.nodes) : g.nodes[i] = n
HasEdge(g, e) == \E i \in 1..Len(g.edges) : g.edges[i] = e

(* A variant that adds the node without looking for it. *)
add_node_always(g, n) == [g EXCEPT !.nodes = Append(@, n)]

add_node(g, n) == IF HasNode(g, n) THEN g ELSE [g EXCEPT !.nodes = Append(@, n)]

add_edge(g, e) ==
    LET g1 == add_node(add_node(g, e[1]), e[2])
    IN IF HasEdge(g1, e) THEN g1 ELSE [g1 EXCEPT !.edges = Append(@, e)]

RECURSIVE AddNodesUpTo(_, _, _)
AddNodesUpTo(g, ns, n) ==
    IF n = 0 THEN g ELSE add_node(AddNodesUpTo(g, ns, n - 1), ns[n])

RECURSIVE AddEdgesUpTo(_, _, _)
AddEdgesUpTo(g, es, n) ==
    IF n = 0 THEN g ELSE add_edge(AddEdgesUpTo(g, es, n - 1), es[n])

add_nodes_from(g, ns) == AddNodesUpTo(g, ns, Len(ns))
add_edges_from(g, es) == AddEdgesUpTo(g, es, Len(es))

(* networkx.node_link_data: the graph as plain data *)
node_link_data(g) ==
    D(<< <<"directed", Bool(TRUE)>>, <<"multigraph", Bool(FALSE)>>,
         <<"graph", D(<<>>)>>,
         <<"nodes", L([i \in 1..Len(g.nodes) |-> D(<< <<"id", S(g.nodes[i])>> >>)])>>,
         <<"links", L([i \in 1..Len(g.edges) |->
                         D(<< <<"source", S(g.edges[i][1])>>,
                              <<"target", S(g.edges[i][2])>> >>)])>> >>)

----------------------------------------------------------------------------
(* The orchestrator's state as a value, and what a call of a handler gives. *)

Now == [heap |-> heap, logs |-> logs, anchors |-> anchors, agents |-> agents,
        cache |-> cache, dag |-> dag, file |-> file]

(* self.state, the dict the steps serialize *)
StateObject(st) ==
    D(<< <<"logs", L(st.logs)>>, <<"anchors", D(st.anchors)>>,
         <<"agents", D(st.agents)>>, <<"cache", D(st.cache)>>,
         <<"dag", G(st.dag)>> >>)

Return(st, value) == [st |-> st, ret |-> value, exc |-> NoExc]
Raise(st, e) == [st |-> st, ret |-> None, exc |-> e]

Failed(step) == D(<< <<"error", S(step \o " failed")>> >>)
Record(why, what, how) ==
    D(<< <<"why", S(why)>>, <<"what", what>>, <<"how", S(how)>> >>)

(* A new dict object that will be shared by reference. *)
Alloc(st, pairs) == [st EXCEPT !.heap = Append(@, pairs)]
NewRef(st) == R(Len(st.heap) + 1)

(* A variant of verify_hash that keeps what it found in the cache. *)
verify_hash_memo(st, step, data) ==
    Return([st EXCEPT !.cache = DictSet(@, Prefix(sha256_hexdigest(data), ProofLen),
                                        Bool(verify_hash(step, data)))],
           Bool(verify_hash(step, data)))

(* SAL.verify_hash as a method called on the object: it reads step_hashes  *)
(* and keys, prints its warning, and assigns to nothing.                   *)
verify_hash_method(st, step, data) == Return(st, Bool(verify_hash(step, data)))

----------------------------------------------------------------------------
(* The nine step handlers.  Each takes the state and its inputs (the       *)
(* results of the external fetch and of the random draws included) and     *)
(* gives the state after it, with its return value or its exception.       *)

ReadyAgents ==
    [i \in 1..Len(AgentNames) |->
        <<AgentNames[i], D(<< <<"status", S("ready")>> >>)>>]

(* A variant of step0_prep that starts the history afresh. *)
step0_prep_resets(st) ==
    LET st1 == [st EXCEPT
                   !.logs = <<>>,
                   !.cache = <<>>,
                   !.agents = ReadyAgents,
                   !.dag = add_edges_from(add_nodes_from(st.dag, AgentNames),
                                          HandoffEdges)]
        data == json_dumps(StateObject(st1), st1.heap)
    IN IF Raised(data) THEN Raise(st1, TypeError)
       ELSE IF verify_hash("PREP", data)
       THEN Return(st1, Record("init orchestration", S("DAG/cache ready"),
                               "refined async setup"))
       ELSE Return(st1, Failed("PREP"))

(* A variant of step0_prep that gives up when the graph is already there. *)
step0_prep_once(st) ==
    LET st1 == [st EXCEPT
                   !.agents = ReadyAgents,
                   !.dag = add_edges_from(add_nodes_from(st.dag, AgentNames),
                                          HandoffEdges)]
        data == json_dumps(StateObject(st1), st1.heap)
    IN IF st.dag.nodes # <<>> THEN Return(st1, Failed("PREP"))
       ELSE IF Raised(data) THEN Raise(st1, TypeError)
       ELSE IF verify_hash("PREP", data)
       THEN Return(st1, Record("init orchestration", S("DAG/cache ready"),
                               "refined async setup"))
       ELSE Return(st1, Failed("PREP"))

(* SAL.step0_prep *)
step0_prep(st) ==
    LET st1 == [st EXCEPT
                   !.agents = ReadyAgents,
                   !.dag = add_edges_from(add_nodes_from(st.dag, AgentNames),
                                          HandoffEdges)]
        data == json_dumps(StateObject(st1), st1.heap)
    IN IF Raised(data) THEN Raise(st1, TypeError)
       ELSE IF verify_hash("PREP", data)
       THEN Return(st1, Record("init orchestration", S("DAG/cache ready"),
                               "refined async setup"))
       ELSE Return(st1, Failed("PREP"))

(* A variant of step1_awaken that merges the plugins into agents in place *)
(* (|= where the code has |).                                             *)
step1_awaken_inplace(st) ==
    LET st1 == [st EXCEPT !.agents =
                   DictSet(@, "plugins", L([i \in 1..Len(Plugins) |-> S(Plugins[i])]))]
        data == json_dumps(D(st1.agents), st1.heap)
    IN IF Raised(data) THEN Raise(st1, TypeError)
       ELSE IF ~verify_hash("AWAKEN", data) THEN Return(st1, Failed("AWAKEN"))
       ELSE Return(st1, Record("beast foundation", S("JSON/agents/plugins"),
                               "async role init"))

(* SAL.step1_awaken *)
step1_awaken(st) ==
    LET data == json_dumps(D(DictSet(st.agents, "plugins",
                                     L([i \in 1..Len(Plugins) |-> S(Plugins[i])]))),
                           st.heap)
    IN IF Raised(data) THEN Raise(st, TypeError)
       ELSE IF ~verify_hash("AWAKEN", data) THEN Return(st, Failed("AWAKEN"))
       ELSE Return(st, Record("beast foundation", S("JSON/agents/plugins"),
                              "async role init"))

(* SAL.step2_question *)
step2_question(st, query, entropy, picks) ==
    LET refined == refine_query(query)
        st1 == Alloc(st, fetch_data("x_post", entropy))
        data == NewRef(st)
        text == json_dumps(data, st1.heap)
        refined1 == IF ~verify_hash("QUESTION", text)
                    THEN DictSet(refined, "query", S(evolve_prompt(query, picks)))
                    ELSE refined
        st2 == [st1 EXCEPT !.logs = Append(@, data)]
    IN IF Raised(text) THEN Raise(st1, TypeError)
       ELSE Return(st2, Record("deep probe", data, "async interrogation"))

(* A variant of the condition with <= for the first <. *)
NeedsEvolution_inclusive(pairs) ==
    /\ DictGet(pairs, "entropy", N(EntropyDefault)).v <= EntropyThreshold
    /\ DictGet(pairs, "semantic_score", N(SemanticDefault)).v < SemanticThreshold

(* The condition of line 92, on the content of the record. *)
NeedsEvolution(pairs) ==
    /\ DictGet(pairs, "entropy", N(EntropyDefault)).v < EntropyThreshold
    /\ DictGet(pairs, "semantic_score", N(SemanticDefault)).v < SemanticThreshold

(* A variant of step3_evidence that verifies first and caches the record  *)
(* only when the verification passed.                                     *)
step3_evidence_checks_first(st, data, picks) ==
    LET old == st.heap[data.v]
        new == IF NeedsEvolution(old)
               THEN DictSet(old, "query",
                            S(evolve_prompt(DictGet(old, "query", S("")).v, picks)))
               ELSE old
        st1 == [st EXCEPT !.heap[data.v] = new]
        text == json_dumps(data, st1.heap)
        zk_proof == Prefix(sha256_hexdigest(text), ProofLen)
        st2 == [st1 EXCEPT !.cache = DictSet(@, zk_proof, data)]
    IN IF Raised(text) THEN Raise(st1, TypeError)
       ELSE IF ~verify_hash("EVIDENCE", text)
       THEN Return(st1, Failed("EVIDENCE"))
       ELSE Return(st2, Record("verify truth", F("ZK-proof: ", zk_proof),
                               "genetic process"))

(* SAL.step3_evidence: data is a reference, the dict is changed in place *)
step3_evidence(st, data, picks) ==
    LET old == st.heap[data.v]
        new == IF NeedsEvolution(old)
               THEN DictSet(old, "query",
                            S(evolve_prompt(DictGet(old, "query", S("")).v, picks)))
               ELSE old
        st1 == [st EXCEPT !.heap[data.v] = new]
        text == json_dumps(data, st1.heap)
        zk_proof == Prefix(sha256_hexdigest(text), ProofLen)
        st2 == [st1 EXCEPT !.cache = DictSet(@, zk_proof, data)]
    IN IF Raised(text) THEN Raise(st1, TypeError)
       ELSE IF ~verify_hash("EVIDENCE", json_dumps(data, st2.heap))
       THEN Return(st2, Failed("EVIDENCE"))
       ELSE Return(st2, Record("verify truth", F("ZK-proof: ", zk_proof),
                               "genetic process"))

(* The dict of line 102: the f-string holds the text of the most recent    *)
(* record as it is now, or the placeholder.                                *)
narrative(st) ==
    D(<< <<"story",
           F("From logs: ",
             IF st.logs # <<>> THEN Resolve(Last(st.logs), st.heap)
             ELSE S("No data"))>> >>)

(* SAL.step4_narrative *)
step4_narrative(st) ==
    LET text == json_dumps(narrative(st), st.heap)
    IN IF Raised(text) THEN Raise(st, TypeError)
       ELSE IF ~verify_hash("NARRATIVE", text) THEN Return(st, Failed("NARRATIVE"))
       ELSE Return(st, Record("synthesize truth", narrative(st), "DAG role weave"))

(* SAL.step5_choose *)
step5_choose(st, choice) ==
    LET st1 == Alloc(st, << <<"choice", S(choice)>> >>)
        st2 == [st1 EXCEPT !.logs = Append(@, NewRef(st))]
        text == json_dumps(D(<< <<"choice", S(choice)>> >>), st2.heap)
    IN IF Raised(text) THEN Raise(st2, TypeError)
       ELSE IF ~verify_hash("CHOOSE", text) THEN Return(st2, Failed("CHOOSE"))
       ELSE Return(st2, Record("empower path", S(choice), "lightweight handoff"))

(* SAL.step6_freedom: the evolved string itself is the payload *)
step6_freedom(st, picks) ==
    LET evolved == evolve_prompt("freedom", picks)
    IN IF ~verify_hash("FREEDOM", S(evolved)) THEN Return(st, Failed("FREEDOM"))
       ELSE Return(st, Record("unchain truth", S(evolved), "genetic override"))

(* A variant of truth with the placeholder of step4_narrative. *)
truth_no_data(st) ==
    D(<< <<"truth", IF st.logs # <<>> THEN Last(st.logs) ELSE S("No data")>> >>)

(* The dict of line 123: the most recent record itself, or the placeholder. *)
truth(st) ==
    D(<< <<"truth", IF st.logs # <<>> THEN Last(st.logs) ELSE S("No truth")>> >>)

(* SAL.step7_truth *)
step7_truth(st) ==
    LET text == json_dumps(truth(st), st.heap)
    IN IF Raised(text) THEN Raise(st, TypeError)
       ELSE IF ~verify_hash("TRUTH", text) THEN Return(st, Failed("TRUTH"))
       ELSE Return(st, Record("deliver insight", truth(st), "ZK-verified"))

(* SAL.step8_allnight *)
step8_allnight(st) ==
    LET export == D(<< <<"state", StateObject(st)>>,
                       <<"dag", node_link_data(st.dag)>> >>)
        text == json_dumps(export, st.heap)
    IN IF Raised(text) THEN Raise(st, TypeError)
       ELSE IF ~verify_hash("ALLNIGHT", text) THEN Return(st, Failed("ALLNIGHT"))
       ELSE Return([st EXCEPT !.file = text],
                   Record("eternal anchor", S("JSON/graph export"), "persistent save"))

----------------------------------------------------------------------------
(* SAL.run: the driver. *)

(* The list of (step, func) pairs of lines 144-154. *)
Pipeline ==
    << <<"PREP", "step0_prep">>,
       <<"AWAKEN", "step1_awaken">>,
       <<"QUESTION", "lambda: step2_question">>,
       <<"EVIDENCE", "lambda: step3_evidence">>,
       <<"NARRATIVE", "step4_narrative">>,
       <<"CHOOSE", "lambda: step5_choose">>,
       <<"FREEDOM", "step6_freedom">>,
       <<"TRUTH", "step7_truth">>,
       <<"ALLNIGHT", "step8_allnight">> >>

StepNames == [i \in 1..Len(Pipeline) |-> Pipeline[i][1]]

(* The argument of step3_evidence in the lambda of line 148. *)
EvidenceArgument(st) == IF st.logs # <<>> THEN Last(st.logs) ELSE D(<<>>)

(* asyncio.iscoroutinefunction: true of the bound async def methods; false *)
(* of step0_prep (a plain def) and of a lambda, whatever the lambda calls. *)
iscoroutinefunction(func) ==
    func \in {"step1_awaken", "step2_question", "step3_evidence", "step4_narrative",
              "step5_choose", "step6_freedom", "step7_truth", "step8_allnight"}

(* func(): a plain def runs; an async def, called directly or inside a     *)
(* lambda, only builds a coroutine object (its arguments are evaluated,    *)
(* its body is not run).                                                    *)
Call(func, st, query, choice) ==
    CASE func = "step0_prep" -> step0_prep(st)
      [] func = "lambda: step2_question" ->
            Return(st, Coroutine("step2_question", S(query)))
      [] func = "lambda: step3_evidence" ->
            Return(st, Coroutine("step3_evidence", EvidenceArgument(st)))
      [] func = "lambda: step5_choose" ->
            Return(st, Coroutine("step5_choose", S(choice)))
      [] OTHER -> Return(st, Coroutine(func, None))

(* await coroutine: the body of the async def runs to completion *)
Await(co, st, entropy, picks) ==
    LET name == co.v[1]
        arg == co.v[2]
    IN CASE name = "step1_awaken" -> step1_awaken(st)
         [] name = "step2_question" -> step2_question(st, arg.v, entropy, picks)
         [] name = "step3_evidence" ->
               IF arg.t = "ref" THEN step3_evidence(st, arg, picks)
               ELSE step3_evidence(Alloc(st, arg.v), NewRef(st), picks)
         [] name = "step4_narrative" -> step4_narrative(st)
         [] name = "step5_choose" -> step5_choose(st, arg.v)
         [] name = "step6_freedom" -> step6_freedom(st, picks)
         [] name = "step7_truth" -> step7_truth(st)
         [] name = "step8_allnight" -> step8_allnight(st)

(* One iteration of the loop of run(), line 155. *)
RunStep(func, st, query, choice, entropy, picks) ==
    LET called == Call(func, st, query, choice)
    IN IF iscoroutinefunction(func) THEN Await(called.ret, called.st, entropy, picks)
       ELSE called

(* Whether the iteration ran the body of a handler. *)
RunsBody(func) == func = "step0_prep" \/ iscoroutinefunction(func)

(* What is noted of a handler whose body was entered. *)
Entered(step, arg, res) == [step |-> step, arg |-> arg, ret |-> res.ret, exc |-> res.exc]

(* The loop of run() from its i-th iteration on: results[step] = ... for   *)
(* each pair in turn, then return results.  An exception of a step leaves  *)
(* run() at once.  `executed` lists the handlers whose body was entered.   *)
RECURSIVE RunFrom(_, _, _, _, _, _, _, _)
RunFrom(i, st, results, executed, query, choice, entropy, picks) ==
    IF i > Len(Pipeline)
    THEN [st |-> st, ret |-> D(results), exc |-> NoExc, executed |-> executed]
    ELSE LET step == Pipeline[i][1]
             func == Pipeline[i][2]
             called == Call(func, st, query, choice)
             res == RunStep(func, st, query, choice, entropy, picks)
             ran == IF RunsBody(func)
                    THEN Append(executed,
                                Entered(step,
                                        IF called.ret.t = "coroutine"
                                        THEN called.ret.v[2] ELSE None,
                                        res))
                    ELSE executed
         IN IF res.exc # NoExc
            THEN [st |-> res.st, ret |-> None, exc |-> res.exc, executed |-> ran]
            ELSE RunFrom(i + 1, res.st, DictSet(results, step, res.ret), ran,
                         query, choice, entropy, picks)

(* SAL.run *)
run(st, query, choice, entropy, picks) ==
    RunFrom(1, st, <<>>, <<>>, query, choice, entropy, picks)

----------------------------------------------------------------------------
(* The state machine. *)

NoCall == [op |-> "none", arg |-> None, before |-> None, ret |-> None, exc |-> NoExc,
           executed |-> <<>>]
(* The fields as lines 13-38 set them; step0_prep (line 39) is still to run. *)
Init ==
    /\ heap = <<>>
    /\ logs = <<>>
    /\ anchors = InitialAnchors
    /\ agents = <<>>
    /\ cache = <<>>
    /\ dag = EmptyGraph
    /\ file = None
    /\ phase = "new"
    /\ last = NoCall

Apply(st) ==
    /\ heap' = st.heap
    /\ logs' = st.logs
    /\ anchors' = st.anchors
    /\ agents' = st.agents
    /\ cache' = st.cache
    /\ dag' = st.dag
    /\ file' = st.file

(* What is kept of a call: its name; its argument (for EVIDENCE the record, *)
(* for CHOOSE and run() the choice); `before` (for EVIDENCE the record's   *)
(* content before the call, for run() whether the call before was a run()  *)
(* too); its return value and exception; the handlers whose body it        *)
(* entered, each with its argument and its result.                         *)
Called(op, arg, before, res, executed) ==
    [op |-> op, arg |-> arg, before |-> before, ret |-> res.ret, exc |-> res.exc,
     executed |-> executed]

(* A handler called on its own, outside run(). *)
Direct(op, arg, before, res) ==
    \E r \in {res} :
        /\ Apply(r.st)
        /\ last' = Called(op, arg, before, r, <<Entered(op, arg, r)>>)

(* SAL.__init__, line 39.  The exception of step0_prep leaves __init__; the *)
(* object, with the fields as step0_prep left them, is from then on in the  *)
(* hands of whoever handled the exception and goes on calling its methods.  *)
Construct ==
    /\ phase = "new"
    /\ phase' = "idle"
    /\ Direct("PREP", None, None, step0_prep(Now))

CallPrep ==
    /\ phase = "idle"
    /\ UNCHANGED phase
    /\ Direct("PREP", None, None, step0_prep(Now))

CallAwaken ==
    /\ phase = "idle"
    /\ UNCHANGED phase
    /\ Direct("AWAKEN", None, None, step1_awaken(Now))

CallQuestion ==
    /\ phase = "idle"
    /\ Len(heap) < MaxRecords
    /\ UNCHANGED phase
    /\ \E query \in Queries, entropy \in Entropies, picks \in Picks :
          Direct("QUESTION", None, None, step2_question(Now, query, entropy, picks))

(* The records a caller hands to EVIDENCE as new objects. *)
EvidenceInputs ==
    << <<>>,
       << <<"entropy", N(20)>>, <<"semantic_score", N(94)>>, <<"query", S("q")>> >>,
       << <<"entropy", N(49)>>, <<"semantic_score", N(95)>>, <<"query", S("q")>> >> >>

(* The bound on the growth of the query fields: the mutations so far. *)
RECURSIVE QueryChars(_, _)
QueryChars(h, n) ==
    IF n = 0 THEN 0
    ELSE QueryChars(h, n - 1) + Len(DictGet(h[n], "query", S("")).v)

Mutations(h) == QueryChars(h, Len(h)) \div MutationLen

MayEvolve(pairs) == NeedsEvolution(pairs) => Mutations(heap) < MaxMutations

(* EVIDENCE on a record the state already holds (a log entry, a cache entry) *)
CallEvidenceHeld ==
    /\ phase = "idle"
    /\ UNCHANGED phase
    /\ \E i \in 1..Len(heap), picks \in Picks :
          /\ MayEvolve(heap[i])
          /\ Direct("EVIDENCE", R(i), D(heap[i]), step3_evidence(Now, R(i), picks))

(* EVIDENCE on a record of the caller's *)
CallEvidenceNew ==
    /\ phase = "idle"
    /\ Len(heap) < MaxRecords
    /\ UNCHANGED phase
    /\ \E k \in 1..Len(EvidenceInputs), picks \in Picks :
          /\ MayEvolve(EvidenceInputs[k])
          /\ Direct("EVIDENCE", NewRef(Now), D(EvidenceInputs[k]),
                    step3_evidence(Alloc(Now, EvidenceInputs[k]), NewRef(Now), picks))

CallNarrative ==
    /\ phase = "idle"
    /\ UNCHANGED phase
    /\ Direct("NARRATIVE", None, None, step4_narrative(Now))

CallChoose ==
    /\ phase = "idle"
    /\ Len(heap) < MaxRecords
    /\ UNCHANGED phase
    /\ \E choice \in Choices :
          Direct("CHOOSE", S(choice), None, step5_choose(Now, choice))

CallFreedom ==
    /\ phase = "idle"
    /\ UNCHANGED phase
    /\ \E picks \in Picks : Direct("FREEDOM", None, None, step6_freedom(Now, picks))

CallTruth ==
    /\ phase = "idle"
    /\ UNCHANGED phase
    /\ Direct("TRUTH", None, None, step7_truth(Now))

CallAllnight ==
    /\ phase = "idle"
    /\ UNCHANGED phase
    /\ Direct("ALLNIGHT", None, None, step8_allnight(Now))

(* The step ids and payloads a caller hands to verify_hash: a step of the  *)
(* table and one the table does not have; the empty text and an evolved   *)
(* prompt.                                                                *)
VerifySteps == {"PREP", "NOSUCH"}
VerifyPayloads == {S(""), S("freedom*****")}

(* sal.verify_hash(step, data), called on its own.  `before` is what the   *)
(* call before returned, when it had the same arguments.                   *)
CallVerifyHash ==
    /\ phase = "idle"
    /\ UNCHANGED phase
    /\ \E step \in VerifySteps, data \in VerifyPayloads :
          \E r \in {verify_hash_method(Now, step, data)} :
             /\ Apply(r.st)
             /\ last' = Called("verify_hash", L(<<S(step), data>>),
                               IF last.op = "verify_hash" /\ last.arg = L(<<S(step), data>>)
                               THEN last.ret ELSE None,
                               r, <<>>)

(* await sal.run(query, choice): nothing else runs in between, the steps *)
(* never yield to another task.                                           *)
CallRun ==
    /\ phase = "idle"
    /\ UNCHANGED phase
    /\ \E query \in Queries, choice \in Choices, entropy \in Entropies, picks \in Picks :
          \E res \in {run(Now, query, choice, entropy, picks)} :
             /\ Apply(res.st)
             /\ Len(res.st.heap) <= MaxRecords
             /\ last' = Called("run", S(choice), Bool(last.op = "run"), res, res.executed)

Next ==
    \/ Construct
    \/ CallPrep
    \/ CallAwaken
    \/ CallQuestion
    \/ CallEvidenceHeld
    \/ CallEvidenceNew
    \/ CallNarrative
    \/ CallChoose
    \/ CallFreedom
    \/ CallTruth
    \/ CallAllnight
    \/ CallVerifyHash
    \/ CallRun

Spec == Init /\ [][Next]_vars

----------------------------------------------------------------------------
(* Properties. *)

RunEnded == last.op = "run"
RunReturned == last.op = "run" /\ last.exc = NoExc /\ last.ret.t = "dict"

ExecutedSteps == [i \in 1..Len(last.executed) |-> last.executed[i].step]

IsStepRecord(x, step) ==
    /\ x.t = "dict"
    /\ \/ Keys(x.v) = <<"why", "what", "how">>
       \/ x.v = << <<"error", S(step \o " failed")>> >>

(* C1: every call of run(), whatever the query and the choice and however  *)
(* many runs came before, returns a map of exactly nine entries whose keys *)
(* are, in insertion order, PREP, AWAKEN, QUESTION, EVIDENCE, NARRATIVE,   *)
(* CHOOSE, FREEDOM, TRUTH, ALLNIGHT.                                       *)
C1_RunReturnsNineEntriesInOrder ==
    RunEnded =>
        /\ RunReturned
        /\ Len(last.ret.v) = 9
        /\ Keys(last.ret.v) =
              <<"PREP", "AWAKEN", "QUESTION", "EVIDENCE", "NARRATIVE", "CHOOSE",
                "FREEDOM", "TRUTH", "ALLNIGHT">>

(* C2: no step ever raises: the construction (which executes PREP), every  *)
(* call of run() and every step end without an exception.                  *)
C2_NoCallRaises == last.exc = NoExc

(* C3: in every run the body of each of the nine handlers is entered and   *)
(* runs to completion exactly once, in the fixed order.                    *)
C3_RunExecutesNineHandlersInOrder ==
    RunEnded =>
        /\ ExecutedSteps = StepNames
        /\ \A i \in 1..Len(last.executed) : last.executed[i].exc = NoExc

(* C4: run() returns a map, and every value of it is the record that the   *)
(* step's handler returned: a why/what/how record or the step's own        *)
(* {error: "<STEP> failed"}, never anything else.                          *)
C4_RunReturnsStepRecords ==
    RunEnded =>
        /\ RunReturned
        /\ \A i \in 1..Len(last.ret.v) :
              /\ IsStepRecord(last.ret.v[i][2], last.ret.v[i][1])
              /\ \E j \in 1..Len(last.executed) :
                    /\ last.executed[j].step = last.ret.v[i][1]
                    /\ last.executed[j].ret = last.ret.v[i][2]

(* C5: in every run with choice c, TRUTH wraps the {choice: c} record that *)
(* CHOOSE of the same run appended to logs: CHOOSE and TRUTH both ran, the *)
(* record TRUTH wrapped is the last log entry, and it reads {choice: c}.   *)
C5_TruthWrapsTheChoiceOfTheRun ==
    RunEnded =>
        \E i, j \in 1..Len(last.executed) :
            /\ i < j
            /\ last.executed[i].step = "CHOOSE"
            /\ last.executed[i].arg = last.arg
            /\ last.executed[j].step = "TRUTH"
            /\ logs # <<>>
            /\ Resolve(Last(logs), heap) = D(<< <<"choice", last.arg>> >>)

(* C6: in every run the record handed to EVIDENCE is the evidence record   *)
(* that QUESTION of the same run appended to logs.                         *)
C6_EvidenceGetsTheRecordOfQuestion ==
    RunEnded =>
        \E i, j \in 1..Len(last.executed) :
            /\ i < j
            /\ last.executed[i].step = "QUESTION"
            /\ last.executed[i].exc = NoExc
            /\ last.executed[j].step = "EVIDENCE"
            /\ last.executed[j].arg = DictGet(last.executed[i].ret.v, "what", None)

(* C7: over any sequence of calls and runs, logs never gets shorter and no *)
(* key of cache ever disappears.                                           *)
C7_LogsAndCacheOnlyGrow ==
    [][/\ Len(logs') >= Len(logs)
       /\ \A i \in 1..Len(cache) : HasKey(cache', cache[i][1])]_vars

(* A second run in a row on an instance that has two log entries and a     *)
(* cache entry.                                                            *)
C7_Witness ==
    /\ RunEnded
    /\ last.before = Bool(TRUE)
    /\ Len(logs) >= 2
    /\ Len(cache) >= 1

(* C8: once step 0 has run, agents has exactly the five agent names as     *)
(* keys, each with status "ready", whatever is called afterwards; anchors  *)
(* is never changed.                                                       *)
C8_AgentsAndAnchorsFixed ==
    /\ phase # "new" =>
          /\ Keys(agents) =
                <<"Coordinator", "Digger", "Proofmaster", "Adapter", "Graphmaster">>
          /\ \A i \in 1..Len(agents) :
                agents[i][2] = D(<< <<"status", S("ready")>> >>)
    /\ anchors = << <<"ALLNIGHT", S("rollback")>>, <<"BEDROCK", S("persistence")>>,
                    <<"RIVER", S("evidence")>> >>

(* AWAKEN has been called on an instance that holds a log entry. *)
C8_Witness ==
    /\ last.op = "AWAKEN"
    /\ Len(logs) >= 1
    /\ Len(agents) = 5

Successors(g, ns) ==
    {g.edges[i][2] : i \in {k \in 1..Len(g.edges) : g.edges[k][1] \in ns}}

RECURSIVE ReachableIn(_, _, _)
ReachableIn(g, ns, k) ==
    IF k = 0 THEN ns
    ELSE ReachableIn(g, ns \cup Successors(g, ns), k - 1)

Acyclic(g) ==
    \A i \in 1..Len(g.nodes) :
        g.nodes[i] \notin ReachableIn(g, Successors(g, {g.nodes[i]}), Len(g.nodes))

(* C9: after construction and after any number of PREP executions and of   *)
(* runs, the graph is acyclic and has exactly the five agent nodes and the *)
(* four edges Coordinator -> Digger -> Proofmaster -> Adapter ->           *)
(* Graphmaster.                                                            *)
C9_GraphIsTheFixedPath ==
    phase # "new" =>
        /\ Len(dag.nodes) = 5
        /\ {dag.nodes[i] : i \in 1..Len(dag.nodes)} =
              {"Coordinator", "Digger", "Proofmaster", "Adapter", "Graphmaster"}
        /\ Len(dag.edges) = 4
        /\ {dag.edges[i] : i \in 1..Len(dag.edges)} =
              {<<"Coordinator", "Digger">>, <<"Digger", "Proofmaster">>,
               <<"Proofmaster", "Adapter">>, <<"Adapter", "Graphmaster">>}
        /\ Acyclic(dag)

(* run() has executed PREP again on the constructed instance. *)
C9_Witness ==
    /\ RunEnded
    /\ Len(last.executed) >= 1
    /\ last.executed[1].step = "PREP"
    /\ Len(dag.nodes) = 5

(* The record EVIDENCE was last called on: before and after. *)
EvidenceBefore == last.before.v
EvidenceAfter == heap[last.arg.v]

QueryOf(pairs) == DictGet(pairs, "query", S("")).v

BelowThresholds(pairs) ==
    /\ HasKey(pairs, "entropy")
    /\ DictGet(pairs, "entropy", None).v < 50
    /\ HasKey(pairs, "semantic_score") => DictGet(pairs, "semantic_score", None).v < 95

(* C10: EVIDENCE, on a record whose entropy is below 0.5 and whose         *)
(* semantic_score is below 0.95 or absent, sets query to the input query   *)
(* (empty if absent) followed by exactly 5 characters; on any other record *)
(* (one without entropy included) it leaves the query field as it was.     *)
C10_EvidenceEvolvesQueryBelowThresholds ==
    last.op = "EVIDENCE" =>
        IF BelowThresholds(EvidenceBefore)
        THEN /\ HasKey(EvidenceAfter, "query")
             /\ Len(QueryOf(EvidenceAfter)) = Len(QueryOf(EvidenceBefore)) + 5
             /\ \E p \in [1..5 -> MutationChars] :
                   QueryOf(EvidenceAfter) = QueryOf(EvidenceBefore) \o Join(p, 5)
        ELSE /\ HasKey(EvidenceAfter, "query") = HasKey(EvidenceBefore, "query")
             /\ QueryOf(EvidenceAfter) = QueryOf(EvidenceBefore)

(* EVIDENCE has evolved the query of a record with entropy 0.2 and no      *)
(* semantic_score.                                                         *)
C10_Witness ==
    /\ last.op = "EVIDENCE"
    /\ DictGet(EvidenceBefore, "entropy", None) = N(20)
    /\ ~HasKey(EvidenceBefore, "semantic_score")
    /\ Len(QueryOf(EvidenceAfter)) = Len(QueryOf(EvidenceBefore)) + 5

----------------------------------------------------------------------------
(* Error records, the export, digest verification. *)

PluginList == L([i \in 1..Len(Plugins) |-> S(Plugins[i])])

(* The text the handler of entry e handed to verify_hash, read from the    *)
(* state and from what the handler was given and returned.                 *)
PayloadOf(e) ==
    CASE e.step = "PREP" -> json_dumps(StateObject(Now), heap)
      [] e.step = "AWAKEN" -> json_dumps(D(DictSet(agents, "plugins", PluginList)), heap)
      [] e.step = "QUESTION" -> json_dumps(DictGet(e.ret.v, "what", None), heap)
      [] e.step = "EVIDENCE" -> json_dumps(e.arg, heap)
      [] e.step = "NARRATIVE" -> json_dumps(narrative(Now), heap)
      [] e.step = "CHOOSE" -> json_dumps(D(<< <<"choice", e.arg>> >>), heap)
      [] e.step = "FREEDOM" -> DictGet(e.ret.v, "what", None)
      [] e.step = "TRUTH" -> json_dumps(truth(Now), heap)
      [] e.step = "ALLNIGHT" ->
            json_dumps(D(<< <<"state", StateObject(Now)>>,
                            <<"dag", node_link_data(dag)>> >>), heap)

(* C11: for each of the nine steps, whenever the step's digest             *)
(* verification fails, the step does not raise (the run continues) and     *)
(* what it returns, and what the result map of the run holds for it, is    *)
(* {error: "<STEP> failed"} with the step's own name: a step that returned *)
(* anything else had its payload verified.                                 *)
C11_FailedVerificationGivesErrorRecord ==
    /\ \A i \in 1..Len(last.executed) :
          LET e == last.executed[i]
          IN /\ e.exc = NoExc
             /\ e.ret # Failed(e.step) => verify_hash(e.step, PayloadOf(e))
    /\ RunEnded =>
          /\ RunReturned
          /\ \A i \in 1..Len(last.executed) :
                DictGet(last.ret.v, last.executed[i].step, None) = last.executed[i].ret

(* The export of line 130, built on the present state. *)
ExportNow == D(<< <<"state", StateObject(Now)>>, <<"dag", node_link_data(dag)>> >>)

(* The identifiers and the links of the dag of an export read back. *)
NodeIdsOf(export) ==
    LET nodes == DictGet(DictGet(export.v, "dag", None).v, "nodes", None).v
    IN {DictGet(nodes[i].v, "id", None).v : i \in 1..Len(nodes)}

LinksOf(export) ==
    LET links == DictGet(DictGet(export.v, "dag", None).v, "links", None).v
    IN {<<DictGet(links[i].v, "source", None).v, DictGet(links[i].v, "target", None).v>> :
           i \in 1..Len(links)}

(* C12: after every run, however many runs came before and whatever       *)
(* verify_hash said to ALLNIGHT, the run has executed ALLNIGHT and the file *)
(* holds the {state, dag} export that ALLNIGHT built, whose dag has        *)
(* exactly the five agent identifiers and the four handoff edges.          *)
C12_ExportPersistedAfterEveryRun ==
    RunEnded =>
        /\ \E i \in 1..Len(last.executed) : last.executed[i].step = "ALLNIGHT"
        /\ file.t = "json"
        /\ file = json_dumps(ExportNow, heap)
        /\ NodeIdsOf(file.v) =
              {"Coordinator", "Digger", "Proofmaster", "Adapter", "Graphmaster"}
        /\ LinksOf(file.v) =
              {<<"Coordinator", "Digger">>, <<"Digger", "Proofmaster">>,
               <<"Proofmaster", "Adapter">>, <<"Adapter", "Graphmaster">>}
        /\ Len(DictGet(DictGet(file.v.v, "dag", None).v, "nodes", None).v) = 5
        /\ Len(DictGet(DictGet(file.v.v, "dag", None).v, "links", None).v) = 4

(* The state of an object before anything was called on it. *)
FreshState ==
    [heap |-> <<>>, logs |-> <<>>, anchors |-> InitialAnchors, agents |-> <<>>,
     cache |-> <<>>, dag |-> EmptyGraph, file |-> None]

(* C13: a call of verify_hash changes nothing in logs, cache, agents,      *)
(* anchors or dag (nor in the records they refer to), and what it returns  *)
(* depends on the step id and the payload alone: it is what the call       *)
(* before returned for the same arguments, and what the same call returns  *)
(* on an object nothing was called on.                                     *)
C13_VerifyHashIsPure ==
    [][(last'.op = "verify_hash" /\ last' # last) =>
          /\ UNCHANGED <<heap, logs, cache, agents, anchors, dag>>
          /\ last'.before # None => last'.ret = last'.before
          /\ last'.ret = verify_hash_method(FreshState, last'.arg.v[1].v,
                                            last'.arg.v[2]).ret]_vars

(* verify_hash has been called twice in a row with the same arguments on   *)
(* an object that holds log entries and a cache entry.                     *)
C13_Witness ==
    /\ last.op = "verify_hash"
    /\ last.before # None
    /\ logs # <<>>
    /\ cache # <<>>

(* C14: when logs is empty, the steps that read the most recent log entry  *)
(* use a placeholder and end without an exception: NARRATIVE builds its    *)
(* story from 'No data', TRUTH wraps 'No truth', and the argument the      *)
(* driver's lambda gives to EVIDENCE is the empty record.                  *)
C14_EmptyLogsGivePlaceholders ==
    logs = <<>> =>
        /\ narrative(Now) = D(<< <<"story", F("From logs: ", S("No data"))>> >>)
        /\ truth(Now) = D(<< <<"truth", S("No truth")>> >>)
        /\ EvidenceArgument(Now) = D(<<>>)
        /\ last.op \in {"NARRATIVE", "TRUTH"} =>
              /\ last.exc = NoExc
              /\ last.ret.t = "dict"

(* TRUTH has been called on an object whose logs is empty. *)
C14_Witness ==
    /\ last.op = "TRUTH"
    /\ phase = "idle"
    /\ logs = <<>>
    /\ last.ret = Failed("TRUTH")

(* C15: logs changes only by appending at the end: every entry that is in  *)
(* logs stays at its place with its content unchanged, whatever is called  *)
(* next (EVIDENCE on the most recent log entry included).                  *)
C15_LogRecordsAreNeverChanged ==
    [][/\ Len(logs') >= Len(logs)
       /\ \A i \in 1..Len(logs) :
             /\ logs'[i] = logs[i]
             /\ Resolve(logs'[i], heap') = Resolve(logs[i], heap)]_vars

(* The proof token of a record as it reads now: the first 16 characters of *)
(* the digest of its JSON text.                                            *)
TokenNow(ref) == Prefix(sha256_hexdigest(json_dumps(ref, heap)), ProofLen)

(* C16: after EVIDENCE, whatever it returned ({error: "EVIDENCE failed"}   *)
(* included), cache holds the record it was given under the proof token of *)
(* that record as it reads after the possible mutation of its query.       *)
C16_EvidenceCachesBeforeItVerifies ==
    (last.op = "EVIDENCE" /\ last.exc = NoExc) =>
        /\ HasKey(cache, TokenNow(last.arg))
        /\ DictGet(cache, TokenNow(last.arg), None) = last.arg
        /\ TokenNow(last.arg).v[1] = 16

(* EVIDENCE has returned its error record for a record whose query it      *)
(* evolved, and the record is in cache under the token of its new content. *)
C16_Witness ==
    /\ last.op = "EVIDENCE"
    /\ last.ret = Failed("EVIDENCE")
    /\ EvidenceAfter # EvidenceBefore
    /\ HasKey(cache, TokenNow(last.arg))
    /\ ~HasKey(cache, Prefix(sha256_hexdigest(
                                [t |-> "json", v |-> D(EvidenceBefore)]), ProofLen))

(* Contents of the graph an orchestrator may hold instead of the handoff  *)
(* path: none, and the path closed to a cycle with a foreign node on it.   *)
DagContents ==
    {EmptyGraph,
     add_edges_from(add_nodes_from(EmptyGraph, AgentNames),
                    Append(HandoffEdges, <<"Graphmaster", "Stranger">>)
                        \o << <<"Stranger", "Coordinator">> >>)}

WithDag(st, g) == [st EXCEPT !.dag = g]

(* Two calls ended the same way: the same exception, the same value. *)
SameOutcome(r1, r2) ==
    /\ r1.exc = r2.exc
    /\ r1.ret.t = r2.ret.t
    /\ r1.ret = r2.ret

(* Two runs entered the same handlers in the same order, and each of the   *)
(* handlers PREP to TRUTH ended the same way in both.                      *)
SameRun(r1, r2) ==
    /\ r1.exc = r2.exc
    /\ Len(r1.executed) = Len(r2.executed)
    /\ \A i \in 1..Len(r1.executed) :
          /\ r1.executed[i].step = r2.executed[i].step
          /\ r1.executed[i].step # "ALLNIGHT" =>
                SameOutcome(r1.executed[i], r2.executed[i])

(* C17: when a run has ended, take the orchestrator as the run left it and *)
(* one that differs from it only in the content of dag, and give both the  *)
(* same query, choice, fetch result and mutation: a run enters the same    *)
(* steps in the same order in both, and each of PREP to TRUTH, in the run  *)
(* or called on its own, returns the same record (or raises the same       *)
(* exception) in both.                                                     *)
C17_StepsDoNotDependOnTheGraph ==
    RunEnded =>
      \A g \in DagContents :
        /\ \A query \in Queries, choice \in Choices, entropy \in Entropies, picks \in Picks :
              /\ SameRun(run(Now, query, choice, entropy, picks),
                         run(WithDag(Now, g), query, choice, entropy, picks))
              /\ SameOutcome(step2_question(Now, query, entropy, picks),
                             step2_question(WithDag(Now, g), query, entropy, picks))
              /\ SameOutcome(step5_choose(Now, choice), step5_choose(WithDag(Now, g), choice))
              /\ SameOutcome(step6_freedom(Now, picks), step6_freedom(WithDag(Now, g), picks))
              /\ \A i \in 1..Len(heap) :
                    SameOutcome(step3_evidence(Now, R(i), picks),
                                step3_evidence(WithDag(Now, g), R(i), picks))
        /\ SameOutcome(step0_prep(Now), step0_prep(WithDag(Now, g)))
        /\ SameOutcome(step1_awaken(Now), step1_awaken(WithDag(Now, g)))
        /\ SameOutcome(step4_narrative(Now), step4_narrative(WithDag(Now, g)))
        /\ SameOutcome(step7_truth(Now), step7_truth(WithDag(Now, g)))

(* A run has ended on an orchestrator that holds the handoff path, log     *)
(* entries and a cache entry, and the same run on one with an empty graph  *)
(* enters PREP as well.                                                    *)
C17_Witness ==
    /\ RunEnded
    /\ dag # EmptyGraph
    /\ logs # <<>>
    /\ cache # <<>>
    /\ Len(last.executed) >= 1
    /\ \E query \in Queries, choice \in Choices, entropy \in Entropies, picks \in Picks :
          Len(run(WithDag(Now, EmptyGraph), query, choice, entropy, picks).executed) >= 1

(* C18: in every reachable state every key of cache is the proof token of  *)
(* the record stored under it as that record reads now.                    *)
C18_CacheKeysMatchTheirRecords ==
    \A i \in 1..Len(cache) : cache[i][1] = TokenNow(cache[i][2])

(* The steps whose return value depends on verify_hash: all but QUESTION. *)
GatedSteps == {StepNames[i] : i \in {k \in 1..Len(StepNames) : StepNames[k] # "QUESTION"}}

(* C19: with the shipped table verify_hash returns false whatever the step *)
(* id and the payload, so every gated step that is entered returns its     *)
(* {error: "<STEP> failed"} record, a run enters every gated step, and     *)
(* nothing is ever written to the file.                                    *)
C19_VerificationAlwaysFails ==
    /\ \A step \in GatedSteps \cup VerifySteps, data \in VerifyPayloads :
          ~verify_hash(step, data)
    /\ last.op = "verify_hash" => last.ret = Bool(FALSE)
    /\ file = None
    /\ \A i \in 1..Len(last.executed) :
          last.executed[i].step \in GatedSteps =>
              /\ last.executed[i].exc = NoExc
              /\ last.executed[i].ret = Failed(last.executed[i].step)
    /\ RunEnded =>
          \A step \in GatedSteps :
              \E i \in 1..Len(last.executed) : last.executed[i].step = step

====
